---- MODULE Spec2Model ----
(***************************************************************************)
(* State-machine model of the radar visualizer's frame loop                *)
(* (src/src/main.rs): telemetry decoding from the serial reader, resize /  *)
(* fullscreen handling of the persistence render texture, the per-frame    *)
(* fade overlay, the background / sweep / detection draws and the final    *)
(* composite.                                                              *)
(*                                                                         *)
(* Units.  Telemetry values (f32 in the program) are fixed point with one  *)
(* decimal: 90.0 is 900.  Screen coordinates (f32 in the program) are in   *)
(* 1/10 pixel: 648.2 is 6482.  Pixels are <<column, row>> pairs.           *)
(***************************************************************************)
EXTENDS Integers, Sequences, FiniteSets, TLC

VARIABLES
    pc,             \* position in the loop body: "input", "read", "draw", "final", "poll"
    frame,          \* number of completed loop iterations
    i_angle,        \* main.rs:98
    i_distance,     \* main.rs:99
    use_shader,     \* main.rs:100
    data_received,  \* main.rs:101
    reader,         \* main.rs:72-76: TRUE iff the serial port was opened
    wire,           \* bytes the sensor has emitted that have not reached the port yet
    rx,             \* bytes that have arrived and wait in the port / BufReader
    screen,         \* what get_screen_width / get_screen_height return
    fullscreen,     \* window is fullscreen
    windowed,       \* size the window returns to when fullscreen is left
    pendingSize,    \* size a toggle_fullscreen will deliver with the next event poll
    resized,        \* is_window_resized() for this frame
    keyS,           \* is_key_pressed(KEY_S) for this frame
    keyF,           \* is_key_pressed(KEY_F) for this frame
    target,         \* the render texture: [w, h, px]
    geom,           \* current_sw, current_sh, radar_center, radar_radius of this frame
    shown,          \* what the last composite put on the screen
    blendRound,     \* how the GPU rounds a blended 8-bit channel
    rd,             \* outcome of this frame's read_line
    ops,            \* canvas operations of this frame, in order
    sent,           \* lines the sensor has emitted so far
    consumed,       \* lines read_line has returned Ok so far
    held0,          \* (angle, distance, data_received) when the frame began
    nUi,            \* key presses and resize events delivered so far
    nCut,           \* partial deliveries so far
    quiet           \* consecutive fade-only steps (SpecFade)

vars == <<pc, frame, i_angle, i_distance, use_shader, data_received, reader,
          wire, rx, screen, fullscreen, windowed, pendingSize, resized, keyS, keyF,
          target, geom, shown, blendRound, rd, ops, sent, consumed, held0,
          nUi, nCut, quiet>>

----------------------------------------------------------------------------
(* Bounds of the model *)

MaxFrames == 3      \* loop iterations explored
MaxUi == 2          \* key presses / resize events delivered in a run
MaxCut == 1         \* deliveries that stop in the middle of a line
MaxQuiet == 60      \* fade-only steps explored by SpecFade

----------------------------------------------------------------------------
(* CONFIG, main.rs:7-19 *)

SCREEN_WIDTH == 1200
SCREEN_HEIGHT == 700
MAX_RANGE_CM == 40

Color(r, g, b, a) == [r |-> r, g |-> g, b |-> b, a |-> a]

BACKGROUND_COLOR == Color(10, 15, 10, 255)
FADE_ANIMATION_COLOR == Color(0, 10, 0, 18)
RADAR_OUTLINE == Color(30, 120, 50, 255)
DETECTED_OBJECT == Color(255, 60, 60, 255)
SWEEP_LINE_COLOR == Color(150, 255, 170, 255)

\* SWEEP_SPREAD_DEG = 3.0 and SWEEP_STEP_DEG = 0.3 in tenths of a degree
SWEEP_SPREAD_DEG == 30
SWEEP_STEP_DEG == 3

----------------------------------------------------------------------------
(* Text: a line is a sequence of one-character strings *)

Digits == {"0", "1", "2", "3", "4", "5", "6", "7", "8", "9"}

DigitVal(c) == CHOOSE n \in 0..9 : <<"0", "1", "2", "3", "4", "5", "6", "7", "8", "9">>[n + 1] = c

\* char::is_whitespace restricted to the characters a serial line carries
WhiteSpace == {" ", "\n", "\r", "\t"}

RECURSIVE TrimStart(_)
TrimStart(s) == IF s # <<>> /\ s[1] \in WhiteSpace THEN TrimStart(Tail(s)) ELSE s

RECURSIVE TrimEnd(_)
TrimEnd(s) ==
    IF s # <<>> /\ s[Len(s)] \in WhiteSpace THEN TrimEnd(SubSeq(s, 1, Len(s) - 1)) ELSE s

\* str::trim
Trim(s) == TrimEnd(TrimStart(s))

\* index of the first c in s, 0 if there is none
RECURSIVE IndexFrom(_, _, _)
IndexFrom(s, c, i) ==
    IF i > Len(s) THEN 0 ELSE IF s[i] = c THEN i ELSE IndexFrom(s, c, i + 1)

IndexOf(s, c) == IndexFrom(s, c, 1)

\* str::split(','): always at least one field; n separators give n + 1 fields
RECURSIVE SplitComma(_)
SplitComma(s) ==
    LET k == IndexOf(s, ",") IN
    IF k = 0 THEN <<s>>
    ELSE <<SubSeq(s, 1, k - 1)>> \o SplitComma(SubSeq(s, k + 1, Len(s)))

----------------------------------------------------------------------------
(* str::parse::<f32>: [sign] (inf | infinity | nan | digits [. digits] [e [sign] digits]) *)
(* with at least one mantissa digit, ASCII case-insensitive.                              *)

ToLower(c) ==
    CASE c = "E" -> "e" [] c = "I" -> "i" [] c = "N" -> "n" [] c = "F" -> "f"
      [] c = "A" -> "a" [] c = "T" -> "t" [] c = "Y" -> "y" [] OTHER -> c

Lower(s) == [i \in 1..Len(s) |-> ToLower(s[i])]

IsSign(c) == c \in {"+", "-"}

Unsigned(s) == IF s # <<>> /\ IsSign(s[1]) THEN Tail(s) ELSE s

Negative(s) == s # <<>> /\ s[1] = "-"

AllDigits(s) == \A i \in 1..Len(s) : s[i] \in Digits

MantissaOf(u) == LET k == IndexOf(u, "e") IN IF k = 0 THEN u ELSE SubSeq(u, 1, k - 1)

ExponentOf(u) == LET k == IndexOf(u, "e") IN IF k = 0 THEN <<>> ELSE SubSeq(u, k + 1, Len(u))

HasExponent(u) == IndexOf(u, "e") # 0

IntDigits(m) == LET k == IndexOf(m, ".") IN IF k = 0 THEN m ELSE SubSeq(m, 1, k - 1)

FracDigits(m) == LET k == IndexOf(m, ".") IN IF k = 0 THEN <<>> ELSE SubSeq(m, k + 1, Len(m))

MantissaOk(m) ==
    /\ AllDigits(IntDigits(m))
    /\ AllDigits(FracDigits(m))
    /\ Len(IntDigits(m)) + Len(FracDigits(m)) >= 1

ExponentOk(x) == Unsigned(x) # <<>> /\ AllDigits(Unsigned(x))

SpecialWords == {<<"i", "n", "f">>, <<"n", "a", "n">>,
                 <<"i", "n", "f", "i", "n", "i", "t", "y">>}

\* whether parse::<f32>() returns Ok
IsF32(s) ==
    LET u == Lower(Unsigned(s)) IN
    \/ u \in SpecialWords
    \/ /\ MantissaOk(MantissaOf(u))
       /\ HasExponent(u) => ExponentOk(ExponentOf(u))

RECURSIVE DigitsValue(_)
DigitsValue(d) ==
    IF d = <<>> THEN 0 ELSE 10 * DigitsValue(SubSeq(d, 1, Len(d) - 1)) + DigitVal(d[Len(d)])

RECURSIVE Pow10(_)
Pow10(n) == IF n <= 0 THEN 1 ELSE 10 * Pow10(n - 1)

\* f32 values: a finite number in tenths, or one of the special values
Num(n) == [k |-> "num", v |-> n]

NaN == [k |-> "nan", v |-> 0]

PosInf == [k |-> "inf", v |-> 0]

NegInf == [k |-> "-inf", v |-> 0]

IsFinite(x) == x.k = "num"

\* the value of an Ok parse (digits past the first decimal are dropped)
F32Value(s) ==
    LET u == Lower(Unsigned(s))
        m == MantissaOf(u)
        x == ExponentOf(u)
        e == IF HasExponent(u)
             THEN (IF Negative(x) THEN -1 ELSE 1) * DigitsValue(Unsigned(x))
             ELSE 0
        n == DigitsValue(IntDigits(m) \o FracDigits(m))
        shift == e - Len(FracDigits(m)) + 1
        mag == IF shift >= 0 THEN n * Pow10(shift) ELSE n \div Pow10(-shift)
    IN  IF u = <<"n", "a", "n">> THEN NaN
        ELSE IF u \in SpecialWords THEN (IF Negative(s) THEN NegInf ELSE PosInf)
        ELSE IF Negative(s) THEN Num(-mag) ELSE Num(mag)

----------------------------------------------------------------------------
(* Read Serial, main.rs:139-151 *)

\* main.rs:142-144: the line is accepted iff it trims and splits into exactly two
\* fields that both parse
Accepts(line) ==
    LET parts == SplitComma(Trim(line)) IN
    /\ Len(parts) = 2
    /\ IsF32(parts[1])
    /\ IsF32(parts[2])

\* DecodeLine with a field that fails to parse read as 0 (unwrap_or(0.0))
DecodeLineDefaulting(line, st) ==
    LET parts == SplitComma(Trim(line))
        val(f) == IF IsF32(f) THEN F32Value(f) ELSE Num(0)
    IN  IF Len(parts) = 2
        THEN [angle |-> val(parts[1]), distance |-> val(parts[2]), received |-> TRUE]
        ELSE st

\* DecodeLine with the angle clamped to the 0..180 degree arc
DecodeLineClamped(line, st) ==
    LET parts == SplitComma(Trim(line))
        a == F32Value(parts[1])
        clamp(x) == IF ~IsFinite(x) THEN x
                    ELSE Num(IF x.v < 0 THEN 0 ELSE IF x.v > 1800 THEN 1800 ELSE x.v)
    IN  IF Accepts(line)
        THEN [angle |-> clamp(a), distance |-> F32Value(parts[2]), received |-> TRUE]
        ELSE st

\* main.rs:145-147: the state after decoding `line`, given the state before
DecodeLine(line, st) ==
    LET parts == SplitComma(Trim(line)) IN
    IF Accepts(line)
    THEN [angle |-> F32Value(parts[1]), distance |-> F32Value(parts[2]), received |-> TRUE]
    ELSE st

\* BufRead::read_line on the buffered port with the 10 ms timeout (main.rs:73, 141):
\* with a newline available the bytes up to and including it are returned Ok; without
\* one every available byte is consumed into `line` and the read fails with TimedOut
ReadLine(buf) ==
    LET k == IndexOf(buf, "\n") IN
    IF k # 0
    THEN [ok |-> TRUE, line |-> SubSeq(buf, 1, k), rest |-> SubSeq(buf, k + 1, Len(buf))]
    ELSE [ok |-> FALSE, line |-> buf, rest |-> <<>>]

Held == [angle |-> i_angle, distance |-> i_distance, received |-> data_received]

----------------------------------------------------------------------------
(* f32::to_radians, cos, sin.  Angles are tenths of a degree, results are   *)
(* scaled by 10000.  Bhaskara's rational approximation of the sine (error   *)
(* below 0.002) stands for the libm routines; its sign and its zeros are    *)
(* exact.                                                                    *)

HalfSine(m) == LET p == (m * (1800 - m)) \div 100 IN (40000 * p) \div (40500 - p)

Sin10k(t) == LET m == t % 3600 IN IF m <= 1800 THEN HalfSine(m) ELSE -HalfSine(m - 1800)

Cos10k(t) == Sin10k(t + 900)

\* center + len * (cos a, -sin a): main.rs:212-215, 231-238
Polar(center, len, t) ==
    [x |-> center.x + (len * Cos10k(t)) \div 10000,
     y |-> center.y - (len * Sin10k(t)) \div 10000]

\* center - len * (cos a, sin a): main.rs:182-185, 189-192
PolarTick(center, len, t) ==
    [x |-> center.x - (len * Cos10k(t)) \div 10000,
     y |-> center.y - (len * Sin10k(t)) \div 10000]

----------------------------------------------------------------------------
(* Calculate Responsive Geometry, main.rs:131-136 *)

\* (current_sh * 0.926) in 1/10 pixel
ScaledHeight(h) == (h * 926) \div 100

Geometry(sz) ==
    [current_sw |-> sz.w,
     current_sh |-> sz.h,
     radar_center |-> [x |-> (sz.w * 10) \div 2, y |-> ScaledHeight(sz.h)],
     radar_radius |-> (sz.w * 10) \div 2]

----------------------------------------------------------------------------
(* The render texture.  px maps the tracked pixels to [c, by, at, dim]: the  *)
(* colour, the operation that last wrote the pixel, the frame it was written *)
(* in and the number of fade overlays that have covered it since.  Tracked   *)
(* are a few probe pixels and every pixel a draw call has been sampled on;   *)
(* all other pixels of the texture are not represented.                      *)

Probes(w, h) == {<<0, 0>>, <<w \div 2, h \div 2>>, <<w - 1, h - 1>>}

Cell(c, by, at) == [c |-> c, by |-> by, at |-> at, dim |-> 0]

\* load_render_texture(w, h) followed by clear_background(BACKGROUND_COLOR):
\* main.rs:87-95 and 120-126
ClearedTexture(w, h, at) ==
    [w |-> w, h |-> h, px |-> [p \in Probes(w, h) |-> Cell(BACKGROUND_COLOR, "clear", at)]]

\* One 8-bit channel of glBlendFunc(SRC_ALPHA, ONE_MINUS_SRC_ALPHA), the blend mode
\* raylib draws with; the rounding of the result is the GPU's
BlendChannel(s, d, a, round) ==
    (s * a + d * (255 - a) + (IF round = "nearest" THEN 127 ELSE 0)) \div 255

Blend(src, dst, round) ==
    [r |-> BlendChannel(src.r, dst.r, src.a, round),
     g |-> BlendChannel(src.g, dst.g, src.a, round),
     b |-> BlendChannel(src.b, dst.b, src.a, round),
     a |-> BlendChannel(src.a, dst.a, src.a, round)]

InTexture(t, p) == p[1] >= 0 /\ p[1] < t.w /\ p[2] >= 0 /\ p[2] < t.h

PixelOf(pt) == <<pt.x \div 10, pt.y \div 10>>

\* the pixel a draw_line_ex(a, b, thick, ..) is sampled on: the one under the
\* three-quarter point of the segment (a segment at least 2 wide always covers the
\* pixel under an interior point of its axis)
LinePixels(a, b) ==
    {PixelOf([x |-> (a.x + 3 * b.x) \div 4, y |-> (a.y + 3 * b.y) \div 4])}

\* an opaque or translucent draw of colour c on the pixels ps that lie in the texture
Paint(t, ps, c, by, at, round) ==
    LET hit == {p \in ps : InTexture(t, p)} IN
    [t EXCEPT !.px =
        [p \in DOMAIN t.px \cup hit |->
            IF p \in hit
            THEN Cell(Blend(c, IF p \in DOMAIN t.px THEN t.px[p].c ELSE BACKGROUND_COLOR, round),
                      by, at)
            ELSE t.px[p]]]

\* Persistence Fade Animation, main.rs:158-164:
\* draw_rectangle(0, 0, current_sw, (current_sh * 0.926) as i32, FADE_ANIMATION_COLOR)
FadeHeight(g) == ScaledHeight(g.current_sh) \div 10

InFadeRect(g, p) == p[1] >= 0 /\ p[1] < g.current_sw /\ p[2] >= 0 /\ p[2] < FadeHeight(g)

\* FadeOverlay with source and destination of the blend exchanged
FadeOverlayUnderneath(t, g, round) ==
    [t EXCEPT !.px =
        [p \in DOMAIN t.px |->
            IF InFadeRect(g, p)
            THEN [t.px[p] EXCEPT !.c = Blend(@, FADE_ANIMATION_COLOR, round), !.dim = @ + 1]
            ELSE t.px[p]]]

FadeOverlay(t, g, round) ==
    [t EXCEPT !.px =
        [p \in DOMAIN t.px |->
            IF InFadeRect(g, p)
            THEN [t.px[p] EXCEPT !.c = Blend(FADE_ANIMATION_COLOR, @, round), !.dim = @ + 1]
            ELSE t.px[p]]]

\* Radar Arcs, main.rs:167-177: the half circle of radius current_sw * scale / 2 with
\* its base line, sampled at the top of the arc and at the middle of the left base radius
ArcScales == <<9375, 7300, 5210, 3130>>

ArcPixels(g, i) ==
    LET r == (g.current_sw * ArcScales[i]) \div 2000
        c == g.radar_center
    IN  {PixelOf([x |-> c.x, y |-> c.y - r]), PixelOf([x |-> c.x - r \div 2, y |-> c.y])}

DrawArcs(t, g, at, round) ==
    Paint(t, UNION {ArcPixels(g, i) : i \in 1..Len(ArcScales)}, RADAR_OUTLINE, "arc", at, round)

\* Angle Markers, main.rs:180-205: the five tick lines.  The labels are rasterised
\* from the font atlas and are not sampled.
TickAngles == {300, 600, 900, 1200, 1500}

DrawTicks(t, g, at, round) ==
    Paint(t,
          UNION {LinePixels(g.radar_center, PolarTick(g.radar_center, g.radar_radius, a))
                 : a \in TickAngles},
          RADAR_OUTLINE, "tick", at, round)

\* Sweep Line, main.rs:209-223: offset runs from -3.0 to 0 in steps of 0.3
SweepOffsets == {-SWEEP_SPREAD_DEG + k * SWEEP_STEP_DEG : k \in 0..(SWEEP_SPREAD_DEG \div SWEEP_STEP_DEG)}

\* a NaN or infinite angle gives NaN end points, which rasterise to nothing
SweepPixels(g, angle) ==
    IF IsFinite(angle)
    THEN UNION {LinePixels(g.radar_center, Polar(g.radar_center, g.radar_radius, angle.v + o))
                : o \in SweepOffsets}
    ELSE {}

DrawSweep(t, g, angle, at, round) ==
    Paint(t, SweepPixels(g, angle), SWEEP_LINE_COLOR, "sweep", at, round)

\* Detected Object, main.rs:226-240
\* i_distance > 0.0 && i_distance < MAX_RANGE_CM, main.rs:227
Gt0(d) == IF IsFinite(d) THEN d.v > 0 ELSE d = PosInf

\* LtMaxRange with <= for <
LtMaxRangeInclusive(d) == IF IsFinite(d) THEN d.v <= MAX_RANGE_CM * 10 ELSE d = NegInf

LtMaxRange(d) == IF IsFinite(d) THEN d.v < MAX_RANGE_CM * 10 ELSE d = NegInf

Detects(d) == Gt0(d) /\ LtMaxRange(d)

DetectionPixels(g, angle, d) ==
    IF IsFinite(angle) /\ IsFinite(d)
    THEN LET pix_dist == (d.v * g.radar_radius) \div (MAX_RANGE_CM * 10)
             object_pos == Polar(g.radar_center, pix_dist, angle.v)
             edge_pos == Polar(g.radar_center, g.radar_radius, angle.v)
         IN  LinePixels(object_pos, edge_pos)
    ELSE {}

DrawDetection(t, g, angle, d, at, round) ==
    Paint(t, DetectionPixels(g, angle, d), DETECTED_OBJECT, "det", at, round)

\* DrawToTextureOps without the data_received gate of main.rs:207
DrawToTextureOpsUngated(received, d) ==
    <<"fade", "arcs", "ticks", "sweep">> \o (IF Detects(d) THEN <<"det">> ELSE <<>>)

\* Draw to Texture, main.rs:154-242: the canvas after the block, and the operations
\* the block performs, in order
DrawToTextureOps(received, d) ==
    <<"fade", "arcs", "ticks">>
        \o (IF received THEN <<"sweep">> ELSE <<>>)
        \o (IF received /\ Detects(d) THEN <<"det">> ELSE <<>>)

\* DrawToTextureResult with the fade overlay drawn after the frame's draws
DrawToTextureResultFadeLast(t, g, st, at, round) ==
    LET t2 == DrawArcs(t, g, at, round)
        t3 == DrawTicks(t2, g, at, round)
        t4 == IF st.received THEN DrawSweep(t3, g, st.angle, at, round) ELSE t3
        t5 == IF st.received /\ Detects(st.distance)
              THEN DrawDetection(t4, g, st.angle, st.distance, at, round)
              ELSE t4
    IN  FadeOverlay(t5, g, round)

DrawToTextureResult(t, g, st, at, round) ==
    LET t1 == FadeOverlay(t, g, round)
        t2 == DrawArcs(t1, g, at, round)
        t3 == DrawTicks(t2, g, at, round)
        t4 == IF st.received THEN DrawSweep(t3, g, st.angle, at, round) ELSE t3
        t5 == IF st.received /\ Detects(st.distance)
              THEN DrawDetection(t4, g, st.angle, st.distance, at, round)
              ELSE t4
    IN  t5

----------------------------------------------------------------------------
(* The environment: the sensor, the window system *)

\* lines the sensor emits: "<angle>,<distance>\n" readings and noise
Line9020 == <<"9", "0", ",", "2", "0", "\n">>

LineNotANumber == <<"n", "o", "t", ",", "a", ",", "n", "u", "m", "b", "e", "r", "\n">>

Line4515 == <<"4", "5", ",", "1", "5", "\n">>

LineLowAngle == <<"1", ".", "5", ",", "4", "0", "\n">>

LineBeyondArc == <<" ", "1", "8", "1", ",", "0", "\r", "\n">>

SourceLines == {Line9020, LineNotANumber, Line4515, LineLowAngle, LineBeyondArc}

WindowSize == [w |-> SCREEN_WIDTH, h |-> SCREEN_HEIGHT]

MonitorSize == [w |-> 1920, h |-> 1080]

SmallSize == [w |-> 800, h |-> 600]

NoSize == [w |-> 0, h |-> 0]

\* sizes a native resize event can bring
WindowSizes == {SmallSize, WindowSize}

NoGeometry == [current_sw |-> 0, current_sh |-> 0, radar_center |-> [x |-> 0, y |-> 0],
               radar_radius |-> 0]

\* raylib's toggle_fullscreen: whether the screen size changes, and whether the new
\* size is in place when the call returns or arrives with the next event poll,
\* depends on the platform
ToggleFullscreen(cur, alt) ==
    {[screen |-> cur, pending |-> NoSize], [screen |-> alt, pending |-> NoSize]}
        \cup (IF alt # cur THEN {[screen |-> cur, pending |-> alt]} ELSE {})

NoEvent == [kind |-> "none", size |-> NoSize]

UiEvents ==
    {NoEvent}
        \cup (IF nUi < MaxUi
              THEN {[kind |-> "S", size |-> NoSize], [kind |-> "F", size |-> NoSize]}
                       \cup {[kind |-> "resize", size |-> sz] :
                                sz \in WindowSizes \ {IF pendingSize # NoSize THEN pendingSize ELSE screen}}
              ELSE {})

----------------------------------------------------------------------------
(* The program *)

\* main.rs:62-101
Init ==
    /\ pc = "input"
    /\ frame = 0
    /\ i_angle = Num(0)
    /\ i_distance = Num(0)
    /\ use_shader = TRUE
    /\ data_received = FALSE
    /\ reader \in BOOLEAN
    /\ wire = <<>>
    /\ rx \in (IF reader THEN SourceLines \cup {<<>>} ELSE {<<>>})
    /\ sent = IF rx = <<>> THEN <<>> ELSE <<rx>>
    /\ screen = WindowSize
    /\ fullscreen = FALSE
    /\ windowed = WindowSize
    /\ pendingSize = NoSize
    /\ resized = FALSE
    /\ keyS = FALSE
    /\ keyF = FALSE
    /\ target = ClearedTexture(SCREEN_WIDTH, SCREEN_HEIGHT, 0)
    /\ geom = NoGeometry
    /\ shown = [drawn |-> FALSE, src |-> NoSize, dest |-> NoSize, shader |-> FALSE]
    /\ blendRound \in {"floor", "nearest"}
    /\ rd = [kind |-> "none", line |-> <<>>]
    /\ ops = <<>>
    /\ consumed = <<>>
    /\ held0 = [angle |-> Num(0), distance |-> Num(0), received |-> FALSE]
    /\ nUi = 0
    /\ nCut = 0
    /\ quiet = 0

\* ResizeTarget re-creating the texture at the size it had
ResizeTargetStale(t, doResize, sz, at) ==
    IF doResize THEN ClearedTexture(t.w, t.h, at) ELSE t

\* ResizeTarget without the clear of main.rs:125-126: the old pixels stay
ResizeTargetKeepsHistory(t, doResize, sz, at) ==
    IF doResize THEN [w |-> sz.w, h |-> sz.h, px |-> t.px] ELSE t

\* the texture after the resize block main.rs:109-127, for the size read at 116-117
ResizeTarget(t, doResize, sz, at) ==
    IF doResize THEN ClearedTexture(sz.w, sz.h, at) ELSE t

\* Input, main.rs:105-136: the S key, the resize block and the frame's geometry
Input ==
    /\ pc = "input"
    /\ use_shader' = (IF keyS THEN ~use_shader ELSE use_shader)
    /\ \E o \in (IF keyF
                 THEN ToggleFullscreen(screen, IF fullscreen THEN windowed ELSE MonitorSize)
                 ELSE {[screen |-> screen, pending |-> pendingSize]}) :
          /\ screen' = o.screen
          /\ pendingSize' = o.pending
          /\ target' = ResizeTarget(target, resized \/ keyF, o.screen, frame)
          /\ geom' = Geometry(o.screen)
    /\ fullscreen' = (IF keyF THEN ~fullscreen ELSE fullscreen)
    /\ windowed' = (IF keyF /\ ~fullscreen THEN screen ELSE windowed)
    /\ ops' = (IF resized \/ keyF THEN <<"realloc", "clear">> ELSE <<>>)
    /\ held0' = Held
    /\ pc' = "read"
    /\ UNCHANGED <<frame, i_angle, i_distance, data_received, reader, wire, rx, resized,
                   keyS, keyF, shown, blendRound, rd, sent, consumed, nUi, nCut, quiet>>

\* Read Serial, main.rs:139-151
ReadSerial ==
    /\ pc = "read"
    /\ IF reader
       THEN LET r == ReadLine(rx)
                st == IF r.ok THEN DecodeLine(r.line, Held) ELSE Held
            IN  /\ rx' = r.rest
                /\ i_angle' = st.angle
                /\ i_distance' = st.distance
                /\ data_received' = st.received
                /\ rd' = [kind |-> IF r.ok THEN "line" ELSE "timeout", line |-> r.line]
                /\ consumed' = (IF r.ok THEN Append(consumed, r.line) ELSE consumed)
       ELSE /\ rd' = [kind |-> "noport", line |-> <<>>]
            /\ UNCHANGED <<rx, i_angle, i_distance, data_received, consumed>>
    /\ pc' = "draw"
    /\ UNCHANGED <<frame, use_shader, reader, wire, screen, fullscreen, windowed,
                   pendingSize, resized, keyS, keyF, target, geom, shown, blendRound,
                   ops, sent, held0, nUi, nCut, quiet>>

\* Draw to Texture, main.rs:154-242
DrawToTexture ==
    /\ pc = "draw"
    /\ target' = DrawToTextureResult(target, geom, Held, frame, blendRound)
    /\ ops' = ops \o DrawToTextureOps(data_received, i_distance)
    /\ pc' = "final"
    /\ UNCHANGED <<frame, i_angle, i_distance, use_shader, data_received, reader, wire,
                   rx, screen, fullscreen, windowed, pendingSize, resized, keyS, keyF,
                   geom, shown, blendRound, rd, sent, consumed, held0, nUi, nCut, quiet>>

\* Final Render, main.rs:246-277: source_rect is the whole texture, dest_rect the
\* size read at 131-132
Composite(t, g, shader) ==
    [drawn |-> TRUE,
     src |-> [w |-> t.w, h |-> t.h],
     dest |-> [w |-> g.current_sw, h |-> g.current_sh],
     shader |-> shader]

FinalRender ==
    /\ pc = "final"
    /\ shown' = Composite(target, geom, use_shader)
    /\ ops' = Append(ops, "composite")
    /\ pc' = "poll"
    /\ UNCHANGED <<frame, i_angle, i_distance, use_shader, data_received, reader, wire,
                   rx, screen, fullscreen, windowed, pendingSize, resized, keyS, keyF,
                   target, geom, blendRound, rd, sent, consumed, held0, nUi, nCut, quiet>>

\* End of the loop body, main.rs:302: the drawing handle is dropped, raylib swaps the
\* buffers and polls the window system; the loop runs again (main.rs:103).  Meanwhile
\* the sensor may emit a line and bytes reach the port.  One poll brings a key or
\* window event, or serial bytes, not both; bytes still in flight keep arriving.
\* The window-size callback that changes the screen size is the one that raises
\* is_window_resized() for the next frame.
EndFrame(events, cuts) ==
    /\ pc = "poll"
    /\ frame + 1 < MaxFrames
    /\ \E ev \in events :
          /\ screen' = (IF ev.kind = "resize" THEN ev.size
                        ELSE IF pendingSize # NoSize THEN pendingSize ELSE screen)
          /\ resized' = (pendingSize # NoSize \/ ev.kind = "resize")
          /\ keyS' = (ev.kind = "S")
          /\ keyF' = (ev.kind = "F")
          /\ nUi' = nUi + (IF ev.kind = "none" THEN 0 ELSE 1)
    /\ pendingSize' = NoSize
    /\ \E l \in (IF reader /\ wire = <<>> /\ ~keyS' /\ ~keyF' /\ ~resized'
                 THEN SourceLines \cup {<<>>}
                 ELSE {<<>>}) :
          LET w1 == wire \o l IN
          \E k \in {Len(w1)} \cup (IF cuts /\ nCut < MaxCut THEN 1..(Len(w1) - 1) ELSE {}) :
              /\ rx' = rx \o SubSeq(w1, 1, k)
              /\ wire' = SubSeq(w1, k + 1, Len(w1))
              /\ sent' = (IF l = <<>> THEN sent ELSE Append(sent, l))
              /\ nCut' = nCut + (IF k < Len(w1) THEN 1 ELSE 0)
    /\ frame' = frame + 1
    /\ pc' = "input"
    /\ UNCHANGED <<i_angle, i_distance, use_shader, data_received, reader, fullscreen,
                   windowed, target, geom, shown, blendRound, rd, ops, consumed, held0,
                   quiet>>

\* key presses and window events arrive; serial lines arrive whole
PollInputEvents == EndFrame(UiEvents, FALSE)

\* no key or window events; serial bytes may arrive in pieces
PollSerial == EndFrame({NoEvent}, TRUE)

Next == Input \/ ReadSerial \/ DrawToTexture \/ FinalRender \/ PollInputEvents

Spec == Init /\ [][Next]_vars

NextSerial == Input \/ ReadSerial \/ DrawToTexture \/ FinalRender \/ PollSerial

SpecSerial == Init /\ [][NextSerial]_vars

----------------------------------------------------------------------------
(* The fade overlay on its own: a texture whose tracked pixels hold one of  *)
(* the colours the program draws with, and frames that draw nothing new     *)

Palette == {BACKGROUND_COLOR, RADAR_OUTLINE, DETECTED_OBJECT, SWEEP_LINE_COLOR}

InitFade ==
    /\ pc = "fade"
    /\ frame = 0
    /\ i_angle = Num(0)
    /\ i_distance = Num(0)
    /\ use_shader = TRUE
    /\ data_received = FALSE
    /\ reader = FALSE
    /\ wire = <<>>
    /\ rx = <<>>
    /\ sent = <<>>
    /\ screen = WindowSize
    /\ fullscreen = FALSE
    /\ windowed = WindowSize
    /\ pendingSize = NoSize
    /\ resized = FALSE
    /\ keyS = FALSE
    /\ keyF = FALSE
    /\ blendRound \in {"floor", "nearest"}
    /\ \E c \in Palette :
          target = Paint(ClearedTexture(SCREEN_WIDTH, SCREEN_HEIGHT, 0),
                         Probes(SCREEN_WIDTH, SCREEN_HEIGHT), c, "seed", 0, blendRound)
    /\ geom = Geometry(WindowSize)
    /\ shown = [drawn |-> FALSE, src |-> NoSize, dest |-> NoSize, shader |-> FALSE]
    /\ rd = [kind |-> "none", line |-> <<>>]
    /\ ops = <<>>
    /\ consumed = <<>>
    /\ held0 = [angle |-> Num(0), distance |-> Num(0), received |-> FALSE]
    /\ nUi = 0
    /\ nCut = 0
    /\ quiet = 0

\* one frame's Persistence Fade Animation (main.rs:158-164) with no draw after it
FadeStep ==
    /\ pc = "fade"
    /\ quiet < MaxQuiet
    /\ target' = FadeOverlay(target, geom, blendRound)
    /\ quiet' = quiet + 1
    /\ UNCHANGED <<pc, frame, i_angle, i_distance, use_shader, data_received, reader,
                   wire, rx, screen, fullscreen, windowed, pendingSize, resized, keyS,
                   keyF, geom, shown, blendRound, rd, ops, sent, consumed, held0, nUi,
                   nCut>>

SpecFade == InitFade /\ [][FadeStep]_vars

----------------------------------------------------------------------------
(* Vocabulary of the properties *)

InSeq(x, q) == \E i \in 1..Len(q) : q[i] = x

\* a line that is not exactly two comma-separated numeric fields once trimmed
Malformed(line) ==
    LET f == SplitComma(Trim(line)) IN
    Len(f) # 2 \/ \E i \in 1..Len(f) : ~IsF32(f[i])

\* the reading a well-formed line carries
ReadingOf(line) ==
    LET f == SplitComma(Trim(line)) IN
    [angle |-> F32Value(f[1]), distance |-> F32Value(f[2]), received |-> TRUE]

NoReading == [angle |-> Num(0), distance |-> Num(0), received |-> FALSE]

WellFormedConsumed == SelectSeq(consumed, LAMBDA l : ~Malformed(l))

Channels(c) == <<c.r, c.g, c.b, c.a>>

----------------------------------------------------------------------------
(* Telemetry decoding *)

\* C1: in every frame whose read yields a malformed line (field count other than
\* two, a field that is no number, an empty line) or yields nothing (timeout, no
\* port), the held angle, distance and data-received flag are the same after the
\* decode step as before it.
C1_MalformedLineKeepsReading ==
    [][(pc = "read" /\ (rd'.kind \in {"timeout", "noport"} \/ Malformed(rd'.line)))
           => (i_angle' = i_angle /\ i_distance' = i_distance
                   /\ data_received' = data_received)]_vars

\* a two-field line with a non-numeric field has been read while a reading was held
C1_Witness ==
    /\ pc = "draw"
    /\ rd.kind = "line"
    /\ Len(SplitComma(Trim(rd.line))) = 2
    /\ Malformed(rd.line)
    /\ held0.received
    /\ Held = held0

\* C2: the held (angle, distance) is the pair of the most recent well-formed line
\* read so far, stored as parsed (no clamping), or (0, 0) if there is none; reading
\* "90,20", "not,a,number", "45,15" gives 90/20, 90/20, 45/15.
C2_HeldIsLastWellFormedLine ==
    /\ Held = (IF WellFormedConsumed = <<>> THEN NoReading
               ELSE ReadingOf(WellFormedConsumed[Len(WellFormedConsumed)]))
    /\ consumed = <<Line9020>> => (i_angle = Num(900) /\ i_distance = Num(200))
    /\ consumed = <<Line9020, LineNotANumber>> => (i_angle = Num(900) /\ i_distance = Num(200))
    /\ consumed = <<Line9020, LineNotANumber, Line4515>>
           => (i_angle = Num(450) /\ i_distance = Num(150))
    /\ (consumed # <<>> /\ consumed[Len(consumed)] = LineBeyondArc) => i_angle = Num(1810)

C2_Witness ==
    /\ consumed = <<Line9020, LineNotANumber, Line4515>>
    /\ i_angle = Num(450)
    /\ i_distance = Num(150)

C10_HeldReadingIsAnEmittedLine ==
    data_received => \E i \in 1..Len(sent) : ~Malformed(sent[i]) /\ Held = ReadingOf(sent[i])

----------------------------------------------------------------------------
(* Viewport and canvas *)

PaintedThisFrame(p) == target.px[p].at = frame /\ target.px[p].by # "clear"

DrawColour(by) ==
    CASE by = "sweep" -> SWEEP_LINE_COLOR
      [] by = "det" -> DETECTED_OBJECT
      [] OTHER -> RADAR_OUTLINE

\* C4: in every frame, under any sequence of resize events and fullscreen toggles,
\* the canvas width and height at the composite equal the display width and height
\* read in that frame for the geometry and the destination rectangle; nothing is
\* drawn to or composited from a canvas of stale size.
C4_CanvasMatchesViewport ==
    /\ pc \in {"read", "draw", "final", "poll"} =>
          /\ geom.current_sw = screen.w
          /\ geom.current_sh = screen.h
          /\ target.w = geom.current_sw
          /\ target.h = geom.current_sh
    /\ pc = "poll" =>
          /\ shown.drawn
          /\ shown.src = [w |-> target.w, h |-> target.h]
          /\ shown.dest = screen
          /\ shown.src = shown.dest

\* the size a fullscreen toggle delivered with a later poll has been composited
C4_Witness ==
    /\ pc = "poll"
    /\ fullscreen
    /\ resized
    /\ ~keyF
    /\ shown.src = MonitorSize
    /\ shown.dest = MonitorSize

\* C5: in a frame where rendering is active, a detection segment is drawn iff the
\* held distance d satisfies 0 < d < 40; for d <= 0 or d >= 40 none is drawn, frame
\* after frame.
C5_DetectionOnlyInsideRange ==
    (pc \in {"final", "poll"} /\ data_received) =>
        LET inside == i_distance.k = "num" /\ i_distance.v > 0 /\ i_distance.v < 400 IN
        /\ InSeq("det", ops) <=> inside
        /\ (\E p \in DOMAIN target.px : target.px[p].by = "det" /\ target.px[p].at = frame)
               <=> inside

\* the held distance is exactly the maximum range in a second frame: nothing drawn
C5_Witness ==
    /\ pc = "final"
    /\ data_received
    /\ rd.kind = "timeout"
    /\ i_distance = Num(400)
    /\ ~InSeq("det", ops)

\* C7: the fade overlay covers the whole canvas: every pixel a sweep or detection
\* segment has been drawn on is dimmed by the fade of every later frame.
C7_FadeDimsEverySweepPixel ==
    pc \in {"final", "poll"} =>
        \A p \in DOMAIN target.px :
            (target.px[p].by \in {"sweep", "det"} /\ target.px[p].at < frame)
                => target.px[p].dim = frame - target.px[p].at

\* C8: within every frame the order is resize handling (reallocation and clear if
\* triggered), fade overlay, background / sweep / detection draws, composite; the
\* canvas gets exactly one fade-then-draw pass per frame and is not written after
\* the composite.
C8_FrameOrder ==
    /\ [](/\ pc = "read" => ops \in {<<>>, <<"realloc", "clear">>}
          /\ pc = "poll" =>
                ops \in {pre \o <<"fade", "arcs", "ticks">> \o sw \o dt \o <<"composite">> :
                            pre \in {<<>>, <<"realloc", "clear">>},
                            sw \in {<<>>, <<"sweep">>},
                            dt \in {<<>>, <<"det">>}}
          /\ pc \in {"final", "poll"} =>
                \A p \in DOMAIN target.px :
                    /\ PaintedThisFrame(p) =>
                          /\ target.px[p].dim = 0
                          /\ target.px[p].c = DrawColour(target.px[p].by)
                    /\ (~PaintedThisFrame(p) /\ InFadeRect(geom, p)) => target.px[p].dim >= 1)
    /\ [][target' # target => pc \in {"input", "draw"}]_vars
    /\ [][pc = "input" /\ target' # target => (resized \/ keyF)]_vars

\* a frame with a resize, a sweep and a detection marker has been composited
C8_Witness ==
    /\ pc = "poll"
    /\ ops = <<"realloc", "clear", "fade", "arcs", "ticks", "sweep", "det", "composite">>

\* C9: in a frame with a resize event or fullscreen toggle the canvas is replaced by
\* one of exactly the new display size with every pixel the background colour, before
\* the frame's fade and draws; center and radius come from the same size
\* (center.x = width / 2, radius = 0.5 * width); angle, distance, data-received flag
\* and effect flag are not changed by the resize.
C9_ResizeRecreatesCanvas ==
    /\ []((pc = "read" /\ ops = <<"realloc", "clear">>) =>
            /\ target.w = screen.w
            /\ target.h = screen.h
            /\ \A p \in DOMAIN target.px :
                   target.px[p].c = BACKGROUND_COLOR /\ target.px[p].by = "clear"
            /\ 2 * geom.radar_center.x = 10 * screen.w
            /\ 2 * geom.radar_radius = 10 * screen.w
            /\ Held = held0)
    /\ [][(pc = "input" /\ (resized \/ keyF)) =>
            /\ ops' = <<"realloc", "clear">>
            /\ i_angle' = i_angle
            /\ i_distance' = i_distance
            /\ data_received' = data_received
            /\ ~keyS => use_shader' = use_shader]_vars

\* the window shrank while a reading was held and earlier frames had drawn
C9_Witness ==
    /\ pc = "read"
    /\ ops = <<"realloc", "clear">>
    /\ screen = SmallSize
    /\ target.w = SmallSize.w
    /\ data_received
    /\ frame >= 1

----------------------------------------------------------------------------
(* Persistence decay *)

\* C6 as stated: a pixel that receives no new draw never brightens, and after
\* enough frames its colour is the background colour.
C6_DecaysToBackground ==
    /\ quiet >= 48 =>
          \A p \in DOMAIN target.px : InFadeRect(geom, p) => target.px[p].c = BACKGROUND_COLOR

\* C6, amended: a pixel that receives no new draw never gets a brighter channel; a
\* pixel under the fade overlay reaches, within 48 frames, a colour the overlay
\* leaves unchanged, each channel at most 7 above the fade colour's (0, 10, 0, 18),
\* which is not the background colour; a pixel outside the overlay keeps its colour.
C6_DecaysTowardFadeColour ==
    /\ [][\A p \in DOMAIN target.px : \A i \in 1..4 :
              Channels(target'.px[p].c)[i] <= Channels(target.px[p].c)[i]]_vars
    /\ [](quiet >= 48 =>
            \A p \in DOMAIN target.px :
                InFadeRect(geom, p) =>
                    /\ Blend(FADE_ANIMATION_COLOR, target.px[p].c, blendRound) = target.px[p].c
                    /\ \A i \in 1..4 :
                          /\ Channels(target.px[p].c)[i] >= Channels(FADE_ANIMATION_COLOR)[i]
                          /\ Channels(target.px[p].c)[i] <= Channels(FADE_ANIMATION_COLOR)[i] + 7
                    /\ target.px[p].c # BACKGROUND_COLOR)
    /\ [](\A p \in DOMAIN target.px :
            ~InFadeRect(geom, p) => (target.px[p].c \in Palette /\ target.px[p].dim = 0))

\* a detection-red pixel has settled, and not on the background colour
C6_Witness ==
    /\ quiet >= 48
    /\ target.px[<<0, 0>>].c = Color(7, 17, 7, 25)
    /\ target.px[<<SCREEN_WIDTH - 1, SCREEN_HEIGHT - 1>>].c = DETECTED_OBJECT

====
